---- MODULE Spec2Model ----
(***************************************************************************)
(* pyresult: the Result and Option containers (src/pyresult/types.py, and  *)
(* the older src/pyresult/result.py and option.py) and the lift adapters   *)
(* (decorators.py, lift_decorator.py), as a state machine driven by a      *)
(* caller who constructs one container, chains combinators on it and ends  *)
(* the chain with a terminal operation.                                    *)
(*                                                                         *)
(* Python values:                                                          *)
(*   - a contained value is an integer;                                    *)
(*   - a text (str) is a sequence of tokens;                               *)
(*   - an exception object is [cls, args, oid]: its class, its args tuple  *)
(*     (here empty or one text) and its object identity;                   *)
(*   - a container is [tag |-> "Ok", value], [tag |-> "Err", error],       *)
(*     [tag |-> "Some", value] or [tag |-> "Nil"];                         *)
(*   - a callable is [name |-> ...] (Call gives each its body).            *)
(* The lazy sequence wrapper Iter (types.py) is a second machine,          *)
(* SpecIter: a caller wraps one list, derives Iters from it with map,      *)
(* for_each and filter, and runs terminal operations, repr and == on them. *)
(* All the Iters of a run pull from the one list_iterator of that list,    *)
(* whose position is `cursor`.                                             *)
(* An evaluation returns an outcome, Ret(value, log) or Raise(exc, log).   *)
(* The log is the trace of what ran: one "call" event per function body    *)
(* entered, one "new" event per exception object allocated while running,  *)
(* one "set" event per assignment a method makes to a slot of its self,    *)
(* one "pull" event per element a list_iterator hands out.                 *)
(* A method that ends in `return self` returns SelfRef.                    *)
(***************************************************************************)
EXTENDS Integers, Sequences, FiniteSets, TLC

\* ---------------------------------------------------------------- bounds
MaxVal == 2     \* contained values are drawn from 0..MaxVal
MaxObj == 2     \* caller-made exception objects have identities 1..MaxObj
MaxSteps == 2   \* combinator steps in one chain
MaxItem == 1    \* the integers of an Iter's source are drawn from 0..MaxItem
MaxLen == 2     \* the source list of an Iter has at most MaxLen elements
MaxIterOps == 2 \* operations one run makes on the Iters of a source

Values == 0..MaxVal

\* ----------------------------------------------------------------- texts
Texts == { <<"x">>, <<"key", "not", "found">> }
Messages == { <<"a", "valid", "key">>, <<>> }

\* repr() of a str: the text between quotes (the tokens hold no quote).
Repr(text) == <<"'">> \o text \o <<"'">>

IsPrefix(p, s) == Len(p) <= Len(s) /\ SubSeq(s, 1, Len(p)) = p
IsSuffix(p, s) == Len(p) <= Len(s) /\ SubSeq(s, Len(s) - Len(p) + 1, Len(s)) = p

\* ------------------------------------------------------------ exceptions
ErrClasses == { "ValueError", "KeyError" }
ErrArgs == { <<>> } \cup { <<t>> : t \in Texts }

Exc(cls, args, oid) == [cls |-> cls, args |-> args, oid |-> oid]

\* The exception objects a caller passes in: two objects may agree in class
\* and args and still be two objects.
Errors == { Exc(c, a, i) : c \in ErrClasses, a \in ErrArgs, i \in 1..MaxObj }

\* Python's class hierarchy below BaseException.
Bases(cls) ==
    CASE cls = "KeyboardInterrupt" -> { "KeyboardInterrupt", "BaseException" }
      [] cls = "KeyError" -> { "KeyError", "LookupError", "Exception", "BaseException" }
      [] cls = "ZeroDivisionError" ->
            { "ZeroDivisionError", "ArithmeticError", "Exception", "BaseException" }
      [] OTHER -> { cls, "Exception", "BaseException" }

isinstance_exc(exc, cls) == cls \in Bases(exc.cls)

\* str(exc): BaseException.__str__ gives '' for no args and str(args[0]) for
\* one; KeyError.__str__ gives repr(args[0]) for one.
Str(exc) ==
    IF Len(exc.args) = 0 THEN <<>>
    ELSE IF exc.cls = "KeyError" THEN Repr(exc.args[1])
    ELSE exc.args[1]

\* -------------------------------------------------------------- outcomes
Ret(val, log) == [kind |-> "ret", val |-> val, log |-> log]
Raise(exc, log) == [kind |-> "raise", exc |-> exc, log |-> log]

\* `v` is evaluated once and then handed to `k`.
With(v, k(_)) == CHOOSE y \in { k(x) : x \in { v } } : TRUE

\* `k` continues a normal return; a raise propagates past it.
Then(o, k(_, _)) == IF o.kind = "ret" THEN k(o.val, o.log) ELSE o

CallEvent(func, arg) == [ev |-> "call", fn |-> func, arg |-> arg]
NewEvent(cls) == [ev |-> "new", cls |-> cls]
PullEvent(idx) == [ev |-> "pull", idx |-> idx]
SetEvent(slot, val) == [ev |-> "set", slot |-> slot, val |-> val]

\* A new exception object: its identity is one no earlier object has.
New(cls, args, log) ==
    LET log1 == Append(log, NewEvent(cls))
    IN  [exc |-> Exc(cls, args, MaxObj + Len(log1)), log |-> log1]

NumCalls(log) == Cardinality({ i \in 1..Len(log) : log[i].ev = "call" })

\* ------------------------------------------------------------ containers
Ok(value) == [tag |-> "Ok", value |-> value]
Err(error) == [tag |-> "Err", error |-> error]
Some(value) == [tag |-> "Some", value |-> value]
Nil == [tag |-> "Nil"]

Results == { Ok(v) : v \in Values } \cup { Err(e) : e \in Errors }
Options == { Some(v) : v \in Values } \cup { Nil }
Containers == Results \cup Options

\* What `return self` returns: the object the method was called on.
SelfRef == [tag |-> "self"]

\* The instance `c` after the assignments to its slot that the events from
\* position `from` + 1 of `log` on record; each variant has at most one slot.
Written(c, log, from) ==
    LET sets == SelectSeq(SubSeq(log, from + 1, Len(log)), LAMBDA ev : ev.ev = "set")
    IN  IF sets = <<>> THEN c
        ELSE [c EXCEPT ![sets[Len(sets)].slot] = sets[Len(sets)].val]

IsResult(c) == c.tag \in { "Ok", "Err" }
IsOption(c) == c.tag \in { "Some", "Nil" }

is_ok(self) == self.tag = "Ok"
is_err(self) == ~is_ok(self)
is_some(self) == self.tag = "Some"
is_none(self) == ~is_some(self)

\* ------------------------------------------------------------- callables
\* The functions a caller hands to the combinators and to the adapters.
Fn(name) == [name |-> name]
identity == Fn("identity")       \* lambda x: x
inc == Fn("inc")                 \* lambda x: x + 1
raiser == Fn("raiser")           \* raises ZeroDivisionError when called
interrupt == Fn("interrupt")     \* raises KeyboardInterrupt when called
double == Fn("double")           \* Result.Ok(x * 2)
fail == Fn("fail")               \* Result.Err(ValueError(...)), a new object per call
halve == Fn("halve")             \* Ok(x // 2) for even x, Err(ValueError("odd")) else
some_inc == Fn("some_inc")       \* Option.Some(x + 1)
to_nil == Fn("to_nil")           \* Option.Nil()

\* lambda x: f(x).and_then(g)
Compose(f, g) == [name |-> "compose", f |-> f, g |-> g]

even == Fn("even")               \* lambda x: x % 2 == 0
digits == Fn("digits")           \* lambda acc, x: acc * 10 + x
is_ok_result == Fn("is_ok_result")      \* lambda x: isinstance(x, Result) and x.is_ok()
is_some_option == Fn("is_some_option")  \* lambda x: isinstance(x, Option) and x.is_some()
unwrap_elem == Fn("unwrap_elem")        \* lambda x: x.unwrap()

const0 == Fn("const0")           \* lambda *args: 0
const1 == Fn("const1")           \* lambda *args: 1

MapFuncs == { identity, inc, raiser }
\* The handlers given to the derived folds: of the value, and of the error
\* (Result) or of nothing (Option).
ValueFuncs == { inc, const1, raiser }
Handlers == { const0, raiser }
\* The functions given to inspect and to map_or, and the defaults given to
\* unwrap_or and map_or.
ObserverFuncs == { inc, raiser }
Defaults == { 0, MaxVal }
ResultFuncs == { double, fail, halve }
BindFuncs == ResultFuncs \cup { raiser }
OptionFuncs == { some_inc, to_nil, raiser }
LiftOps == { identity, inc, raiser, interrupt }

RECURSIVE Call(_, _, _)

\* ---------------------------------------------------- Result (types.py)
Ok_unwrap(self, log) == Ret(self.value, log)

Ok_get_error(self, log) ==
    LET n == New("RuntimeError",
                 << <<"Tried", "to", "get", "an", "error", "from", "an", "Ok", "result">> >>,
                 log)
    IN  Raise(n.exc, n.log)

Err_get_error(self, log) == Ret(self.error, log)

\* raise self._get_error(): the contained object is what is raised.
\* Mutant: the error is wrapped in a new RuntimeError instead of raised itself.
Err_unwrap_Wrapped(self, log) ==
    Then(Err_get_error(self, log),
         LAMBDA error, l: LET n == New("RuntimeError", << Str(error) >>, l)
                          IN  Raise(n.exc, n.log))

Err_unwrap(self, log) ==
    Then(Err_get_error(self, log), LAMBDA error, l: Raise(error, l))

Result_get_error(self, log) ==
    IF self.tag = "Ok" THEN Ok_get_error(self, log) ELSE Err_get_error(self, log)

Result_unwrap(self, log) ==
    IF self.tag = "Ok" THEN Ok_unwrap(self, log) ELSE Err_unwrap(self, log)

\* _fold hands self.unwrap() to on_ok or self._get_error() to on_err: which
\* handler runs, and on what. The caller's definition below applies it.
Result_fold(self, log) ==
    IF is_ok(self)
    THEN Then(Result_unwrap(self, log), LAMBDA value, l: Ret([on |-> "on_ok", arg |-> value], l))
    ELSE Then(Result_get_error(self, log), LAMBDA error, l: Ret([on |-> "on_err", arg |-> error], l))

\* _fold(on_ok, on_err) with the two handlers given.
Fold(sel, on_first(_, _), on_second(_, _)) ==
    IF sel.kind # "ret" THEN sel
    ELSE IF sel.val.on \in { "on_ok", "on_some" } THEN on_first(sel.val.arg, sel.log)
    ELSE on_second(sel.val.arg, sel.log)

\* Mutant: on_err=Result.Ok, the error re-tagged as a success.
Result_map_ErrAsOk(self, func, log) ==
    Fold(Result_fold(self, log),
         LAMBDA value, l: Then(Call(func, value, l), LAMBDA r, l2: Ret(Ok(r), l2)),
         LAMBDA error, l: Ret(Ok(error), l))

\* Mutant: Result.Ok(value), func never applied.
Result_map_NoCall(self, func, log) ==
    Fold(Result_fold(self, log),
         LAMBDA value, l: Ret(Ok(value), l),
         LAMBDA error, l: Ret(Err(error), l))

Result_map(self, func, log) ==
    Fold(Result_fold(self, log),
         LAMBDA value, l: Then(Call(func, value, l), LAMBDA r, l2: Ret(Ok(r), l2)),
         LAMBDA error, l: Ret(Err(error), l))

Result_unwrap_or(self, default, log) ==
    Fold(Result_fold(self, log),
         LAMBDA value, l: Ret(value, l),
         LAMBDA error, l: Ret(default, l))

\* Mutant: func is called on the value of an Ok too, its result dropped.
Result_unwrap_or_else_Always(self, func, log) ==
    Fold(Result_fold(self, log),
         LAMBDA value, l: Then(Call(func, value, l), LAMBDA r, l2: Ret(value, l2)),
         LAMBDA error, l: Call(func, error, l))

Result_unwrap_or_else(self, func, log) ==
    Fold(Result_fold(self, log),
         LAMBDA value, l: Ret(value, l),
         LAMBDA error, l: Call(func, error, l))

Result_map_or(self, default, func, log) ==
    Fold(Result_fold(self, log),
         LAMBDA value, l: Call(func, value, l),
         LAMBDA error, l: Ret(default, l))

Result_map_or_else(self, func, on_err, log) ==
    Fold(Result_fold(self, log),
         LAMBDA value, l: Call(func, value, l),
         LAMBDA error, l: Call(on_err, error, l))

Result_map_err(self, func, log) ==
    Fold(Result_fold(self, log),
         LAMBDA value, l: Ret(Ok(value), l),
         LAMBDA error, l: Then(Call(func, error, l), LAMBDA r, l2: Ret(Err(r), l2)))

\* Mutant: self._value = func(self.unwrap()), the value replaced in place.
Result_inspect_InPlace(self, func, log) ==
    IF is_ok(self)
    THEN Then(Result_unwrap(self, log), LAMBDA value, l:
            Then(Call(func, value, l), LAMBDA r, l2:
                Ret(SelfRef, Append(l2, SetEvent("value", r)))))
    ELSE Ret(SelfRef, log)

Result_inspect(self, func, log) ==
    IF is_ok(self)
    THEN Then(Result_unwrap(self, log), LAMBDA value, l:
            Then(Call(func, value, l), LAMBDA r, l2: Ret(SelfRef, l2)))
    ELSE Ret(SelfRef, log)

\* Mutant: no is_err() test, func(self._get_error()) whatever the variant.
Result_on_err_NoGuard(self, func, log) ==
    Then(Result_get_error(self, log), LAMBDA error, l:
        Then(Call(func, error, l), LAMBDA r, l2: Ret(SelfRef, l2)))

Result_on_err(self, func, log) ==
    IF is_err(self)
    THEN Then(Result_get_error(self, log), LAMBDA error, l:
            Then(Call(func, error, l), LAMBDA r, l2: Ret(SelfRef, l2)))
    ELSE Ret(SelfRef, log)

\* Mutant: no is_ok() test, func(self.unwrap()) whatever the variant.
Result_and_then_NoGuard(self, func, log) ==
    Then(Result_unwrap(self, log), LAMBDA value, l: Call(func, value, l))

Result_and_then(self, func, log) ==
    IF is_ok(self)
    THEN Then(Result_unwrap(self, log), LAMBDA value, l: Call(func, value, l))
    ELSE Then(Result_get_error(self, log), LAMBDA error, l: Ret(Err(error), l))

\* ---------------------------------------------------- Option (types.py)
Some_unwrap(self, log) == Ret(self.value, log)

Nil_unwrap(self, log) ==
    LET n == New("RuntimeError",
                 << <<"Called", "unwrap", "on", "a", "Nil", "Option">> >>, log)
    IN  Raise(n.exc, n.log)

Option_unwrap(self, log) ==
    IF self.tag = "Some" THEN Some_unwrap(self, log) ELSE Nil_unwrap(self, log)

\* _fold hands self.unwrap() to on_some, or calls on_none with no argument.
Option_fold(self, log) ==
    IF is_some(self)
    THEN Then(Option_unwrap(self, log), LAMBDA value, l: Ret([on |-> "on_some", arg |-> value], l))
    ELSE Ret([on |-> "on_none", arg |-> <<>>], log)

Option_map(self, func, log) ==
    Fold(Option_fold(self, log),
         LAMBDA v, l: Then(Call(func, v, l), LAMBDA r, l2: Ret(Some(r), l2)),
         LAMBDA none, l: Ret(Nil, l))

Option_unwrap_or(self, default, log) ==
    Fold(Option_fold(self, log),
         LAMBDA v, l: Ret(v, l),
         LAMBDA none, l: Ret(default, l))

Option_unwrap_or_else(self, default_func, log) ==
    Fold(Option_fold(self, log),
         LAMBDA v, l: Ret(v, l),
         LAMBDA none, l: Call(default_func, none, l))

Option_map_or(self, default, func, log) ==
    Fold(Option_fold(self, log),
         LAMBDA v, l: Call(func, v, l),
         LAMBDA none, l: Ret(default, l))

\* Mutant: the parameters in Result's order, (func, default_func).
Option_map_or_else_ResultOrder(self, default_func, func, log) ==
    Fold(Option_fold(self, log),
         LAMBDA v, l: Call(default_func, v, l),
         LAMBDA none, l: Call(func, none, l))

Option_map_or_else(self, default_func, func, log) ==
    Fold(Option_fold(self, log),
         LAMBDA v, l: Call(func, v, l),
         LAMBDA none, l: Call(default_func, none, l))

Option_inspect(self, func, log) ==
    IF is_some(self)
    THEN Then(Option_unwrap(self, log), LAMBDA v, l:
            Then(Call(func, v, l), LAMBDA r, l2: Ret(SelfRef, l2)))
    ELSE Ret(SelfRef, log)

Option_on_nil(self, func, log) ==
    IF is_none(self)
    THEN Then(Call(func, <<>>, log), LAMBDA r, l: Ret(SelfRef, l))
    ELSE Ret(SelfRef, log)

\* Mutant: no is_some() test, func(self.unwrap()) whatever the variant.
Option_and_then_NoGuard(self, func, log) ==
    Then(Option_unwrap(self, log), LAMBDA v, l: Call(func, v, l))

Option_and_then(self, func, log) ==
    Fold(Option_fold(self, log),
         LAMBDA v, l: Call(func, v, l),
         LAMBDA none, l: Ret(Nil, l))

\* f"{message}: {detail}": the f-string of the two expect methods.
FString(message, detail) == message \o <<": ">> \o detail

\* Mutant: raise RuntimeError(message), the error's text left out.
Result_expect_NoError(self, message, log) ==
    IF is_ok(self)
    THEN Result_unwrap(self, log)
    ELSE LET n == New("RuntimeError", << message >>, log)
         IN  Raise(n.exc, n.log)

Result_expect(self, message, log) ==
    IF is_ok(self)
    THEN Result_unwrap(self, log)
    ELSE Then(Result_get_error(self, log),
              LAMBDA error, l:
                  LET n == New("RuntimeError", << FString(message, Str(error)) >>, l)
                  IN  Raise(n.exc, n.log))

\* Mutant: the fixed text alone, the caller's message left out.
Option_expect_NoMessage(self, message, log) ==
    IF is_some(self)
    THEN Option_unwrap(self, log)
    ELSE LET n == New("RuntimeError",
                      << <<"Called", "expect", "on", "a", "Nil", "Option">> >>, log)
         IN  Raise(n.exc, n.log)

Option_expect(self, message, log) ==
    IF is_some(self)
    THEN Option_unwrap(self, log)
    ELSE LET n == New("RuntimeError",
                      << FString(message,
                                 <<"Called", "expect", "on", "a", "Nil", "Option">>) >>,
                      log)
         IN  Raise(n.exc, n.log)

\* Mutant: on_err=Option.Some, the error kept as a value.
Result_as_option_KeepsError(self, log) ==
    Fold(Result_fold(self, log),
         LAMBDA value, l: Ret(Some(value), l),
         LAMBDA error, l: Ret(Some(error), l))

Result_as_option(self, log) ==
    Fold(Result_fold(self, log),
         LAMBDA value, l: Ret(Some(value), l),
         LAMBDA error, l: Ret(Nil, l))

Option_as_result(self, error, log) ==
    Fold(Option_fold(self, log),
         LAMBDA value, l: Ret(Ok(value), l),
         LAMBDA none, l: Ret(Err(error), l))

\* -------------------------------------------------------------- equality
Ok_eq(self, other) == other.tag = "Ok" /\ self.value = other.value

\* Exceptions define no __eq__: two exceptions are == when they are one object.
ExcEq(a, b) == a.oid = b.oid

\* Mutant: the errors compared with ==, as result.py does.
Err_eq_Identity(self, other) == other.tag = "Err" /\ ExcEq(self.error, other.error)

\* type(a) is type(b) and str(a) == str(b)
Err_eq(self, other) ==
    /\ other.tag = "Err"
    /\ self.error.cls = other.error.cls
    /\ Str(self.error) = Str(other.error)

Some_eq(self, other) == other.tag = "Some" /\ self.value = other.value

Nil_eq(self, other) == other.tag = "Nil"

\* a == b: the __eq__ of a's class decides.
PyEq(a, b) ==
    CASE a.tag = "Ok" -> Ok_eq(a, b)
      [] a.tag = "Err" -> Err_eq(a, b)
      [] a.tag = "Some" -> Some_eq(a, b)
      [] a.tag = "Nil" -> Nil_eq(a, b)

\* result.py, the older Result: Err.__eq__ compares the errors with ==.
ResultPy_Err_eq(self, other) == other.tag = "Err" /\ ExcEq(self.error, other.error)

ResultPy_Eq(a, b) == IF a.tag = "Ok" THEN Ok_eq(a, b) ELSE ResultPy_Err_eq(a, b)

\* ------------------------------------------------------------- adapters
\* Mutant: except Exception, which lets KeyboardInterrupt and SystemExit through.
as_result_ExceptException(func, x, log) ==
    LET o == Call(func, x, log)
    IN  IF o.kind = "ret" THEN Ret(Ok(o.val), o.log)
        ELSE IF isinstance_exc(o.exc, "Exception") THEN Ret(Err(o.exc), o.log)
        ELSE o

\* decorators.py: wrapper(*args) of as_result(func).
as_result(func, x, log) ==
    LET o == Call(func, x, log)
    IN  IF o.kind = "ret" THEN Ret(Ok(o.val), o.log)
        ELSE IF isinstance_exc(o.exc, "BaseException") THEN Ret(Err(o.exc), o.log)
        ELSE o

\* lift_decorator.py: the same adapter over result.py's Result.
lift_decorator_as_result(func, x, log) ==
    LET o == Call(func, x, log)
    IN  IF o.kind = "ret" THEN Ret(Ok(o.val), o.log)
        ELSE IF isinstance_exc(o.exc, "BaseException") THEN Ret(Err(o.exc), o.log)
        ELSE o

\* Mutant: except Exception, which lets KeyboardInterrupt and SystemExit through.
as_option_ExceptException(func, x, log) ==
    LET o == Call(func, x, log)
    IN  IF o.kind = "ret" THEN Ret(Some(o.val), o.log)
        ELSE IF isinstance_exc(o.exc, "Exception") THEN Ret(Nil, o.log)
        ELSE o

\* decorators.py: wrapper(*args) of as_option(func).
as_option(func, x, log) ==
    LET o == Call(func, x, log)
    IN  IF o.kind = "ret" THEN Ret(Some(o.val), o.log)
        ELSE IF isinstance_exc(o.exc, "BaseException") THEN Ret(Nil, o.log)
        ELSE o

\* lift_decorator.py: the same adapter over option.py's Option.
lift_decorator_as_option(func, x, log) ==
    LET o == Call(func, x, log)
    IN  IF o.kind = "ret" THEN Ret(Some(o.val), o.log)
        ELSE IF isinstance_exc(o.exc, "BaseException") THEN Ret(Nil, o.log)
        ELSE o

\* ------------------------------------------------------ function bodies
Call(func, x, log) ==
    LET log1 == Append(log, CallEvent(func, x))
    IN  CASE func.name = "identity" -> Ret(x, log1)
          [] func.name = "inc" -> Ret(x + 1, log1)
          [] func.name = "raiser" ->
                LET n == New("ZeroDivisionError", << <<"division", "by", "zero">> >>, log1)
                IN  Raise(n.exc, n.log)
          [] func.name = "interrupt" ->
                LET n == New("KeyboardInterrupt", <<>>, log1)
                IN  Raise(n.exc, n.log)
          [] func.name = "double" -> Ret(Ok(x * 2), log1)
          [] func.name = "fail" ->
                LET n == New("ValueError",
                             << <<"This", "should", "not", "be", "called.">> >>, log1)
                IN  Ret(Err(n.exc), n.log)
          [] func.name = "halve" ->
                IF x % 2 = 0
                THEN Ret(Ok(x \div 2), log1)
                ELSE LET n == New("ValueError", << <<"odd">> >>, log1)
                     IN  Ret(Err(n.exc), n.log)
          [] func.name = "some_inc" -> Ret(Some(x + 1), log1)
          [] func.name = "to_nil" -> Ret(Nil, log1)
          [] func.name = "const0" -> Ret(0, log1)
          [] func.name = "const1" -> Ret(1, log1)
          [] func.name = "even" -> Ret(x % 2 = 0, log1)
          [] func.name = "digits" -> Ret(x[1] * 10 + x[2], log1)
          [] func.name = "is_ok_result" -> Ret(IsResult(x) /\ is_ok(x), log1)
          [] func.name = "is_some_option" -> Ret(IsOption(x) /\ is_some(x), log1)
          [] func.name = "unwrap_elem" ->
                IF IsResult(x) THEN Result_unwrap(x, log1) ELSE Option_unwrap(x, log1)
          [] func.name = "compose" ->
                Then(Call(func.f, x, log1),
                     LAMBDA r, l: Result_and_then(r, func.g, l))

\* ------------------------------------------------------- Iter (types.py)
\* An iterator object: the list_iterator of the source list, a map object or
\* a filter object over another iterator.  iter() of an iterator is itself.
ListIter == [kind |-> "list"]
MapObj(func, data) == [kind |-> "map", fn |-> func, src |-> data]
FilterObj(func, data) == [kind |-> "filter", fn |-> func, src |-> data]

\* What pulling gives: an element, StopIteration, or an exception of a
\* function of the chain.  `cur` is the list_iterator's position afterwards.
Yield(val, cur, log) == [kind |-> "ret", val |-> val, cur |-> cur, log |-> log]
Stop(cur, log) == [kind |-> "stop", cur |-> cur, log |-> log]
Raised(exc, cur, log) == [kind |-> "raise", exc |-> exc, cur |-> cur, log |-> log]

\* Mutant: an exhausted list_iterator starts again from the first element.
ListNext_Rewind(items, cur, log) ==
    IF cur < Len(items)
    THEN Yield(items[cur + 1], cur + 1, Append(log, PullEvent(cur + 1)))
    ELSE Stop(0, log)

\* next() of the list_iterator that Iter.__init__ makes of the source list.
ListNext(items, cur, log) ==
    IF cur < Len(items)
    THEN Yield(items[cur + 1], cur + 1, Append(log, PullEvent(cur + 1)))
    ELSE Stop(cur, log)

RECURSIVE PyNext(_, _, _, _)
\* Iter.__next__: next(iter(self._data)), through the map and filter objects.
PyNext(data, items, cur, log) ==
    CASE data.kind = "list" -> ListNext(items, cur, log)
      [] data.kind = "map" ->
            With(PyNext(data.src, items, cur, log), LAMBDA r :
                IF r.kind # "ret" THEN r
                ELSE With(Call(data.fn, r.val, r.log), LAMBDA c :
                        IF c.kind = "ret" THEN Yield(c.val, r.cur, c.log)
                        ELSE Raised(c.exc, r.cur, c.log)))
      [] data.kind = "filter" ->
            With(PyNext(data.src, items, cur, log), LAMBDA r :
                IF r.kind # "ret" THEN r
                ELSE With(Call(data.fn, r.val, r.log), LAMBDA c :
                        IF c.kind # "ret" THEN Raised(c.exc, r.cur, c.log)
                        ELSE IF c.val THEN Yield(r.val, r.cur, c.log)
                        ELSE PyNext(data, items, r.cur, c.log)))

\* Mutant: the element is given and the list_iterator put back where it was.
Iter_next_Peek(data, items, cur, log) ==
    With(PyNext(data, items, cur, log), LAMBDA r :
        IF r.kind = "stop"
        THEN LET n == New("StopIteration", <<>>, r.log) IN Raised(n.exc, r.cur, n.log)
        ELSE [r EXCEPT !.cur = cur])

\* next(it): an element, or StopIteration raised to the caller.
Iter_next(data, items, cur, log) ==
    With(PyNext(data, items, cur, log), LAMBDA r :
        IF r.kind = "stop"
        THEN LET n == New("StopIteration", <<>>, r.log) IN Raised(n.exc, r.cur, n.log)
        ELSE r)

RECURSIVE Drain(_, _, _, _, _)
\* The loop of list(data): pulls until StopIteration.
Drain(data, items, cur, log, acc) ==
    With(PyNext(data, items, cur, log), LAMBDA r :
        IF r.kind = "ret" THEN Drain(data, items, r.cur, r.log, Append(acc, r.val))
        ELSE IF r.kind = "stop" THEN Yield(acc, r.cur, r.log)
        ELSE r)

\* A list object holding the elements `q`.
ListObj(q) == [kind |-> "pylist", items |-> q]

PyList(data, items, cur, log) ==
    With(Drain(data, items, cur, log, <<>>), LAMBDA r :
        IF r.kind = "ret" THEN Yield(ListObj(r.val), r.cur, r.log) ELSE r)

\* bool(data) of a list_iterator, map or filter object: these classes define
\* neither __bool__ nor __len__, so the object is true whatever it holds.
Truth(data) == TRUE

\* Mutant: the map object is made and one element is pulled through it.
Iter_map_Eager(data, func, items, cur, log) ==
    With(PyNext(MapObj(func, data), items, cur, log), LAMBDA r :
        IF r.kind = "raise" THEN r ELSE Yield(MapObj(func, data), r.cur, r.log))

Iter_map(data, func, items, cur, log) == Yield(MapObj(func, data), cur, log)

Iter_for_each(data, func, items, cur, log) == Iter_map(data, func, items, cur, log)

Iter_filter(data, func, items, cur, log) == Yield(FilterObj(func, data), cur, log)

RECURSIVE FoldLoop(_, _, _, _, _, _)
\* for item in ...: result = func(result, item)
FoldLoop(data, func, result, items, cur, log) ==
    With(PyNext(data, items, cur, log), LAMBDA r :
        IF r.kind = "stop" THEN Yield(result, r.cur, r.log)
        ELSE IF r.kind = "raise" THEN r
        ELSE With(Call(func, <<result, r.val>>, r.log), LAMBDA c :
                IF c.kind = "ret" THEN FoldLoop(data, func, c.val, items, r.cur, c.log)
                ELSE Raised(c.exc, r.cur, c.log)))

\* Mutant: the accumulator starts from 0, not from initial.
Iter_fold_NoInitial(data, func, initial, items, cur, log) ==
    FoldLoop(data, func, 0, items, cur, log)

Iter_fold(data, func, initial, items, cur, log) ==
    FoldLoop(data, func, initial, items, cur, log)

\* assert (result := next(iterator)), "Cannot fold an empty iterable": next()
\* raises StopIteration on an empty iterator, and the assert fails on a first
\* element that is false (0).  The elements folded here are integers.
Iter_fold1(data, func, items, cur, log) ==
    With(PyNext(data, items, cur, log), LAMBDA r :
        IF r.kind = "raise" THEN r
        ELSE IF r.kind = "stop" THEN
            LET n == New("StopIteration", <<>>, r.log) IN Raised(n.exc, r.cur, n.log)
        ELSE IF r.val # 0 THEN FoldLoop(data, func, r.val, items, r.cur, r.log)
        ELSE LET n == New("AssertionError",
                          << <<"Cannot", "fold", "an", "empty", "iterable">> >>, r.log)
             IN  Raised(n.exc, r.cur, n.log))

\* collect(list): list(self._data).
Iter_collect(data, items, cur, log) == PyList(data, items, cur, log)

\* collect(Result.Ok) is Result.Ok(self._data): the iterator object itself.
Iter_as_result(data, items, cur, log) ==
    IF Truth(data) THEN Yield(Ok(data), cur, log)
    ELSE LET n == New("ValueError", << <<"Empty", "Iter">> >>, log)
         IN  Yield(Err(n.exc), cur, n.log)

Iter_flatten_result(data, items, cur, log) ==
    Iter_as_result(MapObj(unwrap_elem, FilterObj(is_ok_result, data)), items, cur, log)

Iter_as_option(data, items, cur, log) ==
    IF Truth(data) THEN Yield(Some(data), cur, log) ELSE Yield(Nil, cur, log)

Iter_flatten_option(data, items, cur, log) ==
    Iter_as_option(MapObj(unwrap_elem, FilterObj(is_some_option, data)), items, cur, log)

\* repr(it): the f-string runs list(self._data); the text is not modelled,
\* the list it prints is.
Iter_repr(data, items, cur, log) == PyList(data, items, cur, log)

\* self == other for another Iter: list(self._data) == list(other._data),
\* the left list first.
Iter_eq(data, other, items, cur, log) ==
    With(PyList(data, items, cur, log), LAMBDA a :
        IF a.kind = "raise" THEN a
        ELSE With(PyList(other, items, a.cur, a.log), LAMBDA b :
                IF b.kind = "raise" THEN b ELSE Yield(a.val = b.val, b.cur, b.log)))

\* ----------------------------------------------------------------- state
VARIABLES
    self,     \* the container the chain has reached
    origin,   \* [obj, calls]: the container the chain began with, and the
              \* number of function bodies that had run when it was made
    log,      \* the trace of events so far
    last,     \* the last operation: [op, recv, arg, pre, out]
    ops,      \* the names of the combinator steps taken, in order
    pc,       \* "new" | "chain" | "done" | "raised", or "iter" in SpecIter
    born,     \* the instance `self` as its constructor made it
    source,   \* [ty, items]: the list an Iter was made of, and what it holds
    cursor,   \* how many elements the list_iterator of `source` has given
    iters,    \* the _data of the Iter objects the caller holds, oldest first
    done      \* the Iters (indices of `iters`) a fold, fold1 or collect has
              \* run to completion on

iterVars == <<source, cursor, iters, done>>
vars == <<self, origin, log, last, ops, pc, born, source, cursor, iters, done>>

NoContainer == [tag |-> "None"]

Init ==
    /\ self = NoContainer
    /\ origin = [obj |-> NoContainer, calls |-> 0]
    /\ log = <<>>
    /\ last = [op |-> "init"]
    /\ ops = <<>>
    /\ pc = "new"
    /\ born = NoContainer
    /\ source = [ty |-> "int", items |-> <<>>]
    /\ cursor = 0
    /\ iters = <<>>
    /\ done = {}

\* `after` is the receiver as the operation left it.
Record(op, arg, o) ==
    [op |-> op, recv |-> self, arg |-> arg, pre |-> log, out |-> o,
     after |-> Written(self, o.log, Len(log))]

\* A constructor or an adapter call begins the chain.
Begin(op, arg, o) ==
    /\ pc = "new"
    /\ last' = Record(op, arg, o)
    /\ log' = o.log
    /\ ops' = ops
    /\ IF o.kind = "ret"
       THEN /\ self' = o.val
            /\ born' = o.val
            /\ origin' = [obj |-> o.val, calls |-> NumCalls(o.log)]
            /\ pc' = "chain"
       ELSE /\ UNCHANGED <<self, born, origin>>
            /\ pc' = "raised"
    /\ UNCHANGED iterVars

\* A combinator: its result is the next receiver, a new instance unless the
\* method returned self; an exception ends the run.
Step(op, arg, o) ==
    /\ pc = "chain"
    /\ Len(ops) < MaxSteps
    /\ last' = Record(op, arg, o)
    /\ log' = o.log
    /\ ops' = Append(ops, op)
    /\ IF o.kind = "ret" /\ o.val # SelfRef
       THEN /\ self' = o.val
            /\ born' = o.val
       ELSE /\ self' = Written(self, o.log, Len(log))
            /\ born' = born
    /\ pc' = IF o.kind = "ret" THEN "chain" ELSE "raised"
    /\ UNCHANGED origin
    /\ UNCHANGED iterVars

\* A terminal operation leaves the container world: the chain ends.
Terminal(op, arg, o) ==
    /\ pc = "chain"
    /\ last' = Record(op, arg, o)
    /\ log' = o.log
    /\ pc' = IF o.kind = "ret" THEN "done" ELSE "raised"
    /\ self' = Written(self, o.log, Len(log))
    /\ UNCHANGED <<born, origin, ops>>
    /\ UNCHANGED iterVars

NewOk == \E v \in Values : Begin("Ok", v, Ret(Ok(v), log))
NewErr == \E e \in Errors : Begin("Err", e, Ret(Err(e), log))
NewSome == \E v \in Values : Begin("Some", v, Ret(Some(v), log))
NewNil == Begin("Nil", <<>>, Ret(Nil, log))

Map ==
    \E f \in MapFuncs :
        /\ self.tag # "None"
        /\ Step("map", f, IF IsResult(self) THEN Result_map(self, f, log)
                          ELSE Option_map(self, f, log))

AndThen ==
    \/ \E f \in BindFuncs : IsResult(self) /\ Step("and_then", f, Result_and_then(self, f, log))
    \/ \E f \in OptionFuncs : IsOption(self) /\ Step("and_then", f, Option_and_then(self, f, log))

Unwrap ==
    Terminal("unwrap", <<>>, IF IsResult(self) THEN Result_unwrap(self, log)
                             ELSE Option_unwrap(self, log))

Expect ==
    \E m \in Messages :
        Terminal("expect", m, IF IsResult(self) THEN Result_expect(self, m, log)
                              ELSE Option_expect(self, m, log))

UnwrapOr ==
    \E d \in Defaults :
        Terminal("unwrap_or", d, IF IsResult(self) THEN Result_unwrap_or(self, d, log)
                                 ELSE Option_unwrap_or(self, d, log))

UnwrapOrElse ==
    \E g \in Handlers :
        Terminal("unwrap_or_else", g,
                 IF IsResult(self) THEN Result_unwrap_or_else(self, g, log)
                 ELSE Option_unwrap_or_else(self, g, log))

MapOr ==
    \E d \in Defaults, f \in ObserverFuncs :
        Terminal("map_or", <<d, f>>,
                 IF IsResult(self) THEN Result_map_or(self, d, f, log)
                 ELSE Option_map_or(self, d, f, log))

\* self.map_or_else(a, b), the two arguments by position.
MapOrElse ==
    \/ \E a \in ValueFuncs, b \in Handlers :
            /\ IsResult(self)
            /\ a # b
            /\ Terminal("map_or_else", <<a, b>>, Result_map_or_else(self, a, b, log))
    \/ \E a \in Handlers, b \in ValueFuncs \ { inc } :
            /\ IsOption(self)
            /\ a # b
            /\ Terminal("map_or_else", <<a, b>>, Option_map_or_else(self, a, b, log))

MapErr ==
    \E f \in { identity, raiser } :
        IsResult(self) /\ Step("map_err", f, Result_map_err(self, f, log))

Inspect ==
    \E f \in ObserverFuncs :
        /\ self.tag # "None"
        /\ Step("inspect", f, IF IsResult(self) THEN Result_inspect(self, f, log)
                              ELSE Option_inspect(self, f, log))

OnErr == \E f \in Handlers : IsResult(self) /\ Step("on_err", f, Result_on_err(self, f, log))

OnNil == \E f \in Handlers : IsOption(self) /\ Step("on_nil", f, Option_on_nil(self, f, log))

\* is_ok(), is_err() of a Result; is_some(), is_none() of an Option.
Predicate ==
    \/ IsResult(self) /\ Terminal("is_ok", <<>>, Ret(is_ok(self), log))
    \/ IsResult(self) /\ Terminal("is_err", <<>>, Ret(is_err(self), log))
    \/ IsOption(self) /\ Terminal("is_some", <<>>, Ret(is_some(self), log))
    \/ IsOption(self) /\ Terminal("is_none", <<>>, Ret(is_none(self), log))

AsOption == IsResult(self) /\ Step("as_option", <<>>, Result_as_option(self, log))

AsResult == \E e \in Errors : IsOption(self) /\ Step("as_result", e, Option_as_result(self, e, log))

\* self == other
Eq == \E other \in Containers : Terminal("eq", other, Ret(PyEq(self, other), log))

\* self == other, both made by result.py's Result
EqResultPy ==
    \E other \in Results :
        IsResult(self) /\ Terminal("eq_result_py", other, Ret(ResultPy_Eq(self, other), log))

\* Both sides of the bind law on self, the right one run after the left.
Assoc ==
    \E f \in BindFuncs, g \in BindFuncs :
        /\ IsResult(self)
        /\ LET lhs == Then(Result_and_then(self, f, log),
                           LAMBDA r, l: Result_and_then(r, g, l))
               rhs == Result_and_then(self, Compose(f, g), lhs.log)
           IN  Terminal("assoc", <<f, g>>, Ret([lhs |-> lhs, rhs |-> rhs], rhs.log))

Lift ==
    \E f \in LiftOps, x \in Values : Begin("lift", <<f, x>>, as_result(f, x, log))

LiftResultPy ==
    \E f \in LiftOps, x \in Values :
        Begin("lift_result_py", <<f, x>>, lift_decorator_as_result(f, x, log))

LiftOption ==
    \E f \in LiftOps, x \in Values : Begin("lift_option", <<f, x>>, as_option(f, x, log))

LiftOptionPy ==
    \E f \in LiftOps, x \in Values :
        Begin("lift_option_py", <<f, x>>, lift_decorator_as_option(f, x, log))

Next ==
    \/ NewOk
    \/ NewErr
    \/ NewSome
    \/ NewNil
    \/ Lift
    \/ LiftResultPy
    \/ LiftOption
    \/ LiftOptionPy
    \/ UnwrapOr
    \/ UnwrapOrElse
    \/ MapOr
    \/ MapOrElse
    \/ MapErr
    \/ Inspect
    \/ OnErr
    \/ OnNil
    \/ Predicate
    \/ Map
    \/ AndThen
    \/ AsOption
    \/ AsResult
    \/ Unwrap
    \/ Expect
    \/ Eq
    \/ EqResultPy
    \/ Assoc

Spec == Init /\ [][Next]_vars

\* ------------------------------------------------------- the Iter machine
Items == 0..MaxItem
ElemErrors == { Exc("ValueError", << <<"x">> >>, 1) }
ResultElems == { Ok(v) : v \in Items } \cup { Err(e) : e \in ElemErrors }
OptionElems == { Some(v) : v \in Items } \cup { Nil }

SeqsUpTo(S, n) == UNION { [1..k -> S] : k \in 0..n }

\* The lists a caller wraps: of integers, of Results or of Options.
ElemTypes == { "int", "result", "option" }
Elems(ty) ==
    CASE ty = "int" -> Items
      [] ty = "result" -> ResultElems
      [] ty = "option" -> OptionElems

\* Iter(data): self._data = iter(data), the list_iterator of the list.
InitIter ==
    /\ self = NoContainer
    /\ origin = [obj |-> NoContainer, calls |-> 0]
    /\ log = <<>>
    /\ last = [op |-> "init"]
    /\ ops = <<>>
    /\ pc = "iter"
    /\ born = NoContainer
    /\ \E ty \in ElemTypes :
            source \in { [ty |-> ty, items |-> q] : q \in SeqsUpTo(Elems(ty), MaxLen) }
    /\ cursor = 0
    /\ iters = << ListIter >>
    /\ done = {}

RECURSIVE ElemType(_)
\* What the elements an iterator gives are: integers, Results or Options.
ElemType(data) ==
    CASE data.kind = "list" -> source.ty
      [] data.kind = "map" -> IF data.fn = identity THEN ElemType(data.src) ELSE "int"
      [] data.kind = "filter" -> ElemType(data.src)

Handles == 1..Len(iters)
IntHandles == { h \in Handles : ElemType(iters[h]) = "int" }
ContainerHandles == Handles \ IntHandles

\* The functions a caller maps over the elements of an Iter.
IterMapFuncs(h) == IF h \in IntHandles THEN { inc } ELSE { identity }

\* One operation on the Iter `iters[h]`: `derives` when its result is a new
\* Iter the caller keeps, `completes` when it is a fold, fold1 or collect.
\* An exception is caught by the caller, who goes on.
IterStep(op, h, arg, o, derives, completes) ==
    /\ pc = "iter"
    /\ Len(ops) < MaxIterOps
    /\ last' = [op |-> op, h |-> h, data |-> iters[h], arg |-> arg, pre |-> log,
                cur |-> cursor, spent |-> (h \in done), out |-> o]
    /\ log' = o.log
    /\ cursor' = o.cur
    /\ ops' = Append(ops, op)
    /\ iters' = IF derives /\ o.kind = "ret" THEN Append(iters, o.val) ELSE iters
    /\ done' = IF completes /\ o.kind = "ret" THEN done \cup { h } ELSE done
    /\ UNCHANGED <<self, origin, pc, born, source>>

IterMap ==
    \E h \in Handles : \E f \in IterMapFuncs(h) :
        IterStep("Iter.map", h, f, Iter_map(iters[h], f, source.items, cursor, log),
                 TRUE, FALSE)

IterForEach ==
    \E h \in Handles : \E f \in IterMapFuncs(h) :
        IterStep("Iter.for_each", h, f,
                 Iter_for_each(iters[h], f, source.items, cursor, log), TRUE, FALSE)

IterFilter ==
    \E h \in IntHandles :
        IterStep("Iter.filter", h, even,
                 Iter_filter(iters[h], even, source.items, cursor, log), TRUE, FALSE)

IterFold ==
    \E h \in IntHandles, initial \in Items :
        IterStep("Iter.fold", h, <<digits, initial>>,
                 Iter_fold(iters[h], digits, initial, source.items, cursor, log),
                 FALSE, TRUE)

IterFold1 ==
    \E h \in IntHandles :
        IterStep("Iter.fold1", h, digits,
                 Iter_fold1(iters[h], digits, source.items, cursor, log), FALSE, TRUE)

IterCollect ==
    \E h \in Handles :
        IterStep("Iter.collect", h, "list",
                 Iter_collect(iters[h], source.items, cursor, log), FALSE, TRUE)

IterAsResult ==
    \E h \in Handles :
        IterStep("Iter.as_result", h, <<>>,
                 Iter_as_result(iters[h], source.items, cursor, log), FALSE, FALSE)

IterFlattenResult ==
    \E h \in ContainerHandles :
        IterStep("Iter.flatten_result", h, <<>>,
                 Iter_flatten_result(iters[h], source.items, cursor, log), FALSE, FALSE)

IterAsOption ==
    \E h \in Handles :
        IterStep("Iter.as_option", h, <<>>,
                 Iter_as_option(iters[h], source.items, cursor, log), FALSE, FALSE)

IterFlattenOption ==
    \E h \in ContainerHandles :
        IterStep("Iter.flatten_option", h, <<>>,
                 Iter_flatten_option(iters[h], source.items, cursor, log), FALSE, FALSE)

IterNext ==
    \E h \in Handles :
        IterStep("Iter.next", h, <<>>,
                 Iter_next(iters[h], source.items, cursor, log), FALSE, FALSE)

IterRepr ==
    \E h \in Handles :
        IterStep("Iter.repr", h, <<>>,
                 Iter_repr(iters[h], source.items, cursor, log), FALSE, FALSE)

IterEq ==
    \E h \in Handles, other \in Handles :
        IterStep("Iter.eq", h, other,
                 Iter_eq(iters[h], iters[other], source.items, cursor, log), FALSE, FALSE)

NextIter ==
    \/ IterMap
    \/ IterForEach
    \/ IterFilter
    \/ IterFold
    \/ IterFold1
    \/ IterCollect
    \/ IterAsResult
    \/ IterFlattenResult
    \/ IterAsOption
    \/ IterFlattenOption
    \/ IterNext
    \/ IterRepr
    \/ IterEq

SpecIter == InitIter /\ [][NextIter]_vars

\* ---------------------------------------------------------------- claims
IsChainStep == last.op \in { "map", "and_then" }

\* Every operation since the constructor was a map or an and_then.
ChainOnly ==
    /\ \A i \in 1..Len(ops) : ops[i] \in { "map", "and_then" }
    /\ IF ops = <<>> THEN pc = "chain" ELSE IsChainStep

\* C1: a map or and_then on an Err runs no function body and returns an Err
\* that carries the same error object and equals the receiver; so a chain of
\* map/and_then steps begun on Err(e) never raises, runs no function body,
\* and ends on an Err carrying e itself, whatever the functions are.
C1_ResultShortCircuit ==
    /\ (IsChainStep /\ last.recv.tag = "Err") =>
            /\ last.out.kind = "ret"
            /\ last.out.log = last.pre
            /\ last.out.val.tag = "Err"
            /\ last.out.val.error = last.recv.error
            /\ PyEq(last.out.val, Err(last.recv.error))
    /\ (origin.obj.tag = "Err" /\ ChainOnly) =>
            /\ NumCalls(log) = origin.calls
            /\ self.tag = "Err"
            /\ self.error = origin.obj.error
            /\ PyEq(self, origin.obj)

\* An Err went through a map and then an and_then whose function would raise.
C1_Witness ==
    /\ origin.obj.tag = "Err"
    /\ ChainOnly
    /\ Len(ops) >= 2
    /\ ops[1] = "map"
    /\ last.op = "and_then"
    /\ last.arg = raiser
    /\ pc = "chain"

\* Two outcomes agree: both return equal containers, or both raise
\* exceptions of one class and text.
SameOutcome(l, r) ==
    /\ l.kind = r.kind
    /\ l.kind = "ret" => PyEq(l.val, r.val)
    /\ l.kind = "raise" => (l.exc.cls = r.exc.cls /\ Str(l.exc) = Str(r.exc))

\* C2: bind is associative: r.and_then(f).and_then(g) equals
\* r.and_then(lambda x: f(x).and_then(g)) for every Result r and all f, g.
C2_BindAssociative ==
    last.op = "assoc" => SameOutcome(last.out.val.lhs, last.out.val.rhs)

\* f made an Err on each side: two error objects, and the two sides are equal.
C2_Witness ==
    /\ last.op = "assoc"
    /\ last.recv.tag = "Ok"
    /\ last.out.val.lhs.kind = "ret"
    /\ last.out.val.rhs.kind = "ret"
    /\ last.out.val.lhs.val.tag = "Err"
    /\ last.out.val.rhs.val.tag = "Err"
    /\ last.out.val.lhs.val.error.oid # last.out.val.rhs.val.error.oid

\* C3: map(identity) returns a container equal to its receiver, for Ok, Err,
\* Some and Nil.
C3_MapIdentity ==
    (last.op = "map" /\ last.arg = identity) =>
        /\ last.out.kind = "ret"
        /\ PyEq(last.out.val, last.recv)
        /\ PyEq(last.recv, last.out.val)

C3_Witness ==
    /\ last.op = "map"
    /\ last.arg = identity
    /\ last.recv.tag = "Err"
    /\ pc = "chain"

\* C4: Ok(v).as_option() == Some(v), Err(e).as_option() == Nil,
\* Some(v).as_result(e) == Ok(v), Nil.as_result(e) == Err(e) with e itself;
\* so Ok(v).as_option().as_result(e) == Ok(v), and
\* Err(e1).as_option().as_result(e2) is Err(e2): e1 is lost.
C4_Conversions ==
    /\ last.op = "as_option" =>
            /\ last.out.kind = "ret"
            /\ last.recv.tag = "Ok" => PyEq(last.out.val, Some(last.recv.value))
            /\ last.recv.tag = "Err" => PyEq(last.out.val, Nil)
    /\ last.op = "as_result" =>
            /\ last.out.kind = "ret"
            /\ last.recv.tag = "Some" => PyEq(last.out.val, Ok(last.recv.value))
            /\ last.recv.tag = "Nil" =>
                    /\ PyEq(last.out.val, Err(last.arg))
                    /\ last.out.val.tag = "Err"
                    /\ last.out.val.error = last.arg
    /\ (ops = <<"as_option", "as_result">> /\ last.op = "as_result") =>
            /\ origin.obj.tag = "Ok" => PyEq(self, origin.obj)
            /\ origin.obj.tag = "Err" =>
                    /\ PyEq(self, Err(last.arg))
                    /\ self.error = last.arg
                    /\ ~Err_eq(origin.obj, Err(last.arg)) => ~PyEq(self, origin.obj)

\* Err(e1) went to an Option and back with an e2 of another class.
C4_Witness ==
    /\ ops = <<"as_option", "as_result">>
    /\ last.op = "as_result"
    /\ origin.obj.tag = "Err"
    /\ origin.obj.error.cls # last.arg.cls
    /\ self.tag = "Err"

\* Same variant and, for Ok, equal values, or, for Err, errors of one class
\* and one message text.
SameResult(a, b) ==
    /\ a.tag = b.tag
    /\ a.tag = "Ok" => a.value = b.value
    /\ a.tag = "Err" => (a.error.cls = b.error.cls /\ Str(a.error) = Str(b.error))

\* C5: two Results are equal iff they are the same variant with equal values
\* (Ok) or with errors of the same class and message text (Err), whatever the
\* identity of the error objects. Stated of result.py's Result.
C5_ResultPyEquality ==
    last.op = "eq_result_py" => (last.out.val <=> SameResult(last.recv, last.arg))

\* The same statement of types.py's Result, where it holds.
C5_TypesPyEquality ==
    (last.op = "eq" /\ IsResult(last.recv) /\ IsResult(last.arg)) =>
        (last.out.val <=> SameResult(last.recv, last.arg))

\* C6: Ok(v).unwrap() returns v; Err(e).unwrap() returns nothing and raises
\* e itself: the same object, no new exception made.
C6_ResultUnwrap ==
    (last.op = "unwrap" /\ IsResult(last.recv)) =>
        /\ last.recv.tag = "Ok" =>
                (last.out.kind = "ret" /\ last.out.val = last.recv.value)
        /\ last.recv.tag = "Err" =>
                /\ last.out.kind = "raise"
                /\ last.out.exc = last.recv.error
                /\ last.out.log = last.pre

C6_Witness ==
    /\ last.op = "unwrap"
    /\ last.recv.tag = "Err"
    /\ pc = "raised"

\* C7: Ok(v).expect(m) returns v; Err(e).expect(m) raises a new RuntimeError,
\* not e, whose text is m, then ": ", then str(e).
C7_ResultExpect ==
    (last.op = "expect" /\ IsResult(last.recv)) =>
        /\ last.recv.tag = "Ok" =>
                (last.out.kind = "ret" /\ last.out.val = last.recv.value)
        /\ last.recv.tag = "Err" =>
                /\ last.out.kind = "raise"
                /\ last.out.exc.cls = "RuntimeError"
                /\ last.out.exc.oid # last.recv.error.oid
                /\ IsPrefix(last.arg \o <<": ">>, Str(last.out.exc))
                /\ IsSuffix(<<": ">> \o Str(last.recv.error), Str(last.out.exc))
                /\ Len(Str(last.out.exc)) = Len(last.arg) + 1 + Len(Str(last.recv.error))

\* Err(KeyError("...")).expect("a valid key"), the case of test_expect.py.
C7_Witness ==
    /\ last.op = "expect"
    /\ last.recv.tag = "Err"
    /\ last.recv.error.cls = "KeyError"
    /\ Len(last.recv.error.args) = 1
    /\ Len(last.arg) > 0
    /\ pc = "raised"

\* C8: Some(v).unwrap() and Some(v).expect(m) return v; Nil.unwrap() raises a
\* RuntimeError the library makes, with a fixed text; Nil.expect(m) raises a
\* failure whose text starts with m.
C8_OptionUnwrapExpect ==
    (last.op \in { "unwrap", "expect" } /\ IsOption(last.recv)) =>
        /\ last.recv.tag = "Some" =>
                (last.out.kind = "ret" /\ last.out.val = last.recv.value)
        /\ last.recv.tag = "Nil" =>
                /\ last.out.kind = "raise"
                /\ last.out.exc.cls = "RuntimeError"
                /\ last.out.exc.oid \notin 1..MaxObj
                /\ last.op = "unwrap" =>
                        Str(last.out.exc) = <<"Called", "unwrap", "on", "a", "Nil", "Option">>
                /\ last.op = "expect" => IsPrefix(last.arg, Str(last.out.exc))

C8_Witness ==
    /\ last.op = "expect"
    /\ last.recv.tag = "Nil"
    /\ Len(last.arg) > 0
    /\ pc = "raised"

\* C9: a map or and_then on Nil returns Nil and runs no function body, so a
\* chain of map/and_then steps begun on Nil ends on Nil with no function
\* invoked; Some(v).and_then(f) is what f(v) is: its return or its raise.
C9_OptionShortCircuit ==
    /\ (IsChainStep /\ last.recv.tag = "Nil") =>
            /\ last.out.kind = "ret"
            /\ last.out.val = Nil
            /\ last.out.log = last.pre
    /\ (origin.obj.tag = "Nil" /\ ChainOnly) =>
            /\ self = Nil
            /\ NumCalls(log) = origin.calls
    /\ (last.op = "and_then" /\ last.recv.tag = "Some") =>
            last.out = Call(last.arg, last.recv.value, last.pre)

C9_Witness ==
    /\ origin.obj.tag = "Nil"
    /\ ChainOnly
    /\ Len(ops) >= 2
    /\ ops[1] = "map"
    /\ last.op = "and_then"
    /\ last.arg = raiser
    /\ pc = "chain"

\* C10: as_result(op)(x) never raises: it is Ok(op(x)) when op(x) returns,
\* and Err of the very exception op raised when it raises, of whatever class.
C10_LiftResult ==
    last.op \in { "lift", "lift_result_py" } =>
        LET raw == Call(last.arg[1], last.arg[2], last.pre)
        IN  /\ last.out.kind = "ret"
            /\ raw.kind = "ret" => last.out.val = Ok(raw.val)
            /\ raw.kind = "raise" =>
                    /\ last.out.val.tag = "Err"
                    /\ last.out.val.error = raw.exc

\* The adapter caught a KeyboardInterrupt, which is no Exception.
C10_Witness ==
    /\ last.op = "lift"
    /\ last.arg[1] = interrupt
    /\ self.tag = "Err"
    /\ self.error.cls = "KeyboardInterrupt"
    /\ ~isinstance_exc(self.error, "Exception")

\* C11: as_option(op)(x) never raises: it is Some(op(x)) when op(x) returns,
\* whatever it returns, and Nil when op(x) raises, of whatever class; nothing
\* of the exception is in the result.
C11_LiftOption ==
    last.op \in { "lift_option", "lift_option_py" } =>
        LET raw == Call(last.arg[1], last.arg[2], last.pre)
        IN  /\ last.out.kind = "ret"
            /\ raw.kind = "ret" => last.out.val = Some(raw.val)
            /\ raw.kind = "raise" => last.out.val = Nil

\* The adapter turned a KeyboardInterrupt into Nil.
C11_Witness ==
    /\ last.op = "lift_option"
    /\ last.arg[1] = interrupt
    /\ self = Nil
    /\ pc = "chain"

\* The calls of func that the last operation made, in order.
NewCalls(func) ==
    LET made == SubSeq(last.out.log, Len(last.pre) + 1, Len(last.out.log))
    IN  SelectSeq(made, LAMBDA ev : ev.ev = "call" /\ ev.fn = func)

\* C20: Ok(v).map(f) == Ok(f(v)), f called exactly once, on v; Err(e).map(f)
\* == Err(e), the error object unchanged and f never called.
C20_ResultMap ==
    (last.op = "map" /\ IsResult(last.recv)) =>
        /\ last.recv.tag = "Ok" =>
                LET raw == Call(last.arg, last.recv.value, last.pre)
                IN  /\ NewCalls(last.arg) = << CallEvent(last.arg, last.recv.value) >>
                    /\ raw.kind = "ret" =>
                            /\ last.out.kind = "ret"
                            /\ PyEq(last.out.val, Ok(raw.val))
        /\ last.recv.tag = "Err" =>
                /\ last.out.kind = "ret"
                /\ PyEq(last.out.val, Err(last.recv.error))
                /\ last.out.val.error = last.recv.error
                /\ last.out.log = last.pre

\* Ok(v).map(lambda x: x + 1), the case of test_map.py.
C20_Witness ==
    /\ last.op = "map"
    /\ last.recv.tag = "Ok"
    /\ last.arg = inc
    /\ self = Ok(last.recv.value + 1)

\* ------------------------------------------------------- claims on Iter
\* The elements of the source list that no operation had pulled when the
\* last operation began.
Remaining == SubSeq(source.items, last.cur + 1, Len(source.items))

\* The value a function returns for an argument.
Apply(func, x) == Call(func, x, <<>>).val

RECURSIVE Denote(_, _)
\* The sequence an iterator stands for over the list elements `q`.
Denote(data, q) ==
    CASE data.kind = "list" -> q
      [] data.kind = "map" ->
            LET d == Denote(data.src, q)
            IN  [i \in 1..Len(d) |-> Apply(data.fn, d[i])]
      [] data.kind = "filter" ->
            SelectSeq(Denote(data.src, q), LAMBDA x : Apply(data.fn, x))

RECURSIVE LeftFold(_, _, _)
\* f(...f(f(acc, q[1]), q[2])..., q[n])
LeftFold(func, acc, q) ==
    IF q = <<>> THEN acc ELSE LeftFold(func, Apply(func, <<acc, Head(q)>>), Tail(q))

RECURSIVE FoldCalls(_, _, _)
\* The calls of the left fold, in order.
FoldCalls(func, acc, q) ==
    IF q = <<>> THEN <<>>
    ELSE << CallEvent(func, <<acc, Head(q)>>) >>
            \o FoldCalls(func, Apply(func, <<acc, Head(q)>>), Tail(q))

Constructions == { "Iter.map", "Iter.for_each", "Iter.filter" }

\* The functions of the map and filter objects of an iterator.
RECURSIVE ChainFuncs(_)
ChainFuncs(data) ==
    IF data.kind = "list" THEN {} ELSE { data.fn } \cup ChainFuncs(data.src)

CallsOver(func, q) == [i \in 1..Len(q) |-> CallEvent(func, q[i])]

\* C13 (as stated): for iter.map(f) over a list, each of fold, collect,
\* flatten_result and flatten_option has, when it returns, called f exactly
\* once per element of the list, in the list's order.
C13_TerminalsDriveChain ==
    ( /\ last.op \in { "Iter.fold", "Iter.collect",
                       "Iter.flatten_result", "Iter.flatten_option" }
      /\ last.data.kind = "map"
      /\ last.data.src = ListIter ) =>
        NewCalls(last.data.fn) = CallsOver(last.data.fn, Remaining)

\* What of C13 the code does: fold and collect drive the chain.
C13_FoldCollectDriveChain ==
    ( /\ last.op \in { "Iter.fold", "Iter.collect" }
      /\ last.data.kind = "map"
      /\ last.data.src = ListIter ) =>
        NewCalls(last.data.fn) = CallsOver(last.data.fn, Remaining)

\* The unwrapped values of the Ok elements of `q`, in order.
OkValues(q) ==
    LET oks == SelectSeq(q, LAMBDA x : IsResult(x) /\ is_ok(x))
    IN  [i \in 1..Len(oks) |-> oks[i].value]

\* The unwrapped values of the Some elements of `q`, in order.
SomeValues(q) ==
    LET somes == SelectSeq(q, LAMBDA x : IsOption(x) /\ is_some(x))
    IN  [i \in 1..Len(somes) |-> somes[i].value]

\* C14 (as stated): on a list of Results that holds at least one Ok,
\* flatten_result() is Ok of the sequence of the unwrapped Ok values, in the
\* list's order, every Err dropped.
C14_FlattenResult ==
    ( /\ last.op = "Iter.flatten_result"
      /\ last.data = ListIter
      /\ source.ty = "result"
      /\ OkValues(Remaining) # <<>> ) =>
        /\ last.out.kind = "ret"
        /\ last.out.val = Ok(ListObj(OkValues(Remaining)))

\* What of C14 the code does: the payload is the map object over the filter
\* object, and enumerating it right after the return gives those values.
C14_PayloadContents ==
    ( /\ last.op = "Iter.flatten_result"
      /\ last.data = ListIter
      /\ source.ty = "result" ) =>
        /\ last.out.kind = "ret"
        /\ last.out.val.tag = "Ok"
        /\ cursor = last.cur
        /\ PyList(last.out.val.value, source.items, cursor, log).val
                = ListObj(OkValues(Remaining))

\* Whether an exception is ValueError('Empty Iter').
IsEmptyIterError(exc) ==
    /\ exc.cls = "ValueError"
    /\ Str(exc) = <<"Empty", "Iter">>

\* C15 (as stated): as_result / as_option on a source that yields nothing,
\* and flatten_result / flatten_option when nothing survives the filter,
\* give Err(ValueError('Empty Iter')) / Nil, never Ok / Some of an empty
\* sequence.
C15_EmptySignal ==
    /\ ( /\ last.op = "Iter.as_result"
         /\ Denote(last.data, Remaining) = <<>> ) =>
            /\ last.out.kind = "ret"
            /\ last.out.val.tag = "Err"
            /\ IsEmptyIterError(last.out.val.error)
    /\ ( /\ last.op = "Iter.flatten_result"
         /\ OkValues(Denote(last.data, Remaining)) = <<>> ) =>
            /\ last.out.kind = "ret"
            /\ last.out.val.tag = "Err"
            /\ IsEmptyIterError(last.out.val.error)
    /\ ( /\ last.op = "Iter.as_option"
         /\ Denote(last.data, Remaining) = <<>> ) =>
            /\ last.out.kind = "ret"
            /\ last.out.val = Nil
    /\ ( /\ last.op = "Iter.flatten_option"
         /\ SomeValues(Denote(last.data, Remaining)) = <<>> ) =>
            /\ last.out.kind = "ret"
            /\ last.out.val = Nil

\* C16: fold(f, initial) pulls every element of the source once, in order,
\* and returns f(...f(f(initial, x1), x2)..., xn); on a source that gives
\* nothing it returns initial and f is not called.
C16_Fold ==
    last.op = "Iter.fold" =>
        LET func == last.arg[1]
            initial == last.arg[2]
            xs == Denote(last.data, Remaining)
        IN  /\ last.out.kind = "ret"
            /\ last.out.val = LeftFold(func, initial, xs)
            /\ NewCalls(func) = FoldCalls(func, initial, xs)
            /\ cursor = Len(source.items)
            /\ xs = <<>> => (last.out.val = initial /\ NewCalls(func) = <<>>)

\* Iter([1, 0]).fold(lambda acc, x: acc * 10 + x, 1) is 110.
C16_Witness ==
    /\ last.op = "Iter.fold"
    /\ last.data = ListIter
    /\ last.cur = 0
    /\ source.items = <<1, 0>>
    /\ last.arg[2] = 1
    /\ last.out.val = 110
    /\ cursor = 2

\* C17 (as stated): on every source that gives x1..xn, n >= 1, whatever x1
\* is, fold1(f) returns f(...f(x1, x2)..., xn), x1 itself when n = 1; it
\* fails with an error exactly when the source gives nothing.
C17_Fold1 ==
    last.op = "Iter.fold1" =>
        LET xs == Denote(last.data, Remaining)
        IN  /\ xs # <<>> =>
                /\ last.out.kind = "ret"
                /\ last.out.val = LeftFold(last.arg, Head(xs), Tail(xs))
            /\ xs = <<>> <=> last.out.kind = "raise"

\* What of C17 the code does: the fold seeded with x1 when x1 is true.
C17_Fold1TruthyFirst ==
    last.op = "Iter.fold1" =>
        LET xs == Denote(last.data, Remaining)
        IN  /\ (xs # <<>> /\ Head(xs) # 0) =>
                /\ last.out.kind = "ret"
                /\ last.out.val = LeftFold(last.arg, Head(xs), Tail(xs))
            /\ xs = <<>> =>
                /\ last.out.kind = "raise"
                /\ last.out.exc.cls = "StopIteration"
            /\ (xs # <<>> /\ Head(xs) = 0) =>
                /\ last.out.kind = "raise"
                /\ last.out.exc.cls = "AssertionError"

Completing == { "Iter.fold", "Iter.fold1", "Iter.collect" }

\* C18: once a fold, fold1 or collect has run to completion on an Iter, in
\* every later state the Iter gives no element: the source is at its end and
\* stays there, a second fold returns initial without calling f, a second
\* collect gives the empty list, and no operation brings elements back.
C18_ExhaustionIrreversible ==
    /\ done # {} => cursor = Len(source.items)
    /\ \A h \in done :
            LET again == PyList(iters[h], source.items, cursor, log)
            IN  /\ again.val = ListObj(<<>>)
                /\ again.log = log
    /\ (last.op = "Iter.fold" /\ last.spent) =>
            /\ last.out.val = last.arg[2]
            /\ NewCalls(last.arg[1]) = <<>>
    /\ (last.op = "Iter.collect" /\ last.spent) =>
            last.out.val = ListObj(<<>>)
    /\ (last.op # "init" /\ last.spent) => cursor = last.cur

\* Two collects of one Iter over a list that holds elements: the second is
\* empty.
C18_Witness ==
    /\ ops = <<"Iter.collect", "Iter.collect">>
    /\ last.spent
    /\ last.h = 1
    /\ Len(source.items) > 0
    /\ last.out.val = ListObj(<<>>)

\* C19 (as stated): map, filter, for_each, == and repr pull no element, so a
\* later terminal operation sees the elements that were there before.
C19_OnlyTerminalsExhaust ==
    last.op \in Constructions \cup { "Iter.eq", "Iter.repr" } =>
        /\ cursor = last.cur
        /\ PyList(last.data, source.items, cursor, log).val
                = ListObj(Denote(last.data, Remaining))

\* What of C19 the code does: map, filter and for_each pull nothing.
C19_ConstructionsPullNothing ==
    last.op \in Constructions =>
        /\ cursor = last.cur
        /\ PyList(last.data, source.items, cursor, log).val
                = ListObj(Denote(last.data, Remaining))

\* ------------------------------------------- claims on the derived folds
\* C21: on Ok(v), unwrap_or(d) and unwrap_or_else(g) return v, g not called,
\* and map_or(d, f) and map_or_else(f, h) are f(v), h not called; on Err(e),
\* unwrap_or(d) and map_or(d, f) return d, unwrap_or_else(g) is g(e) and
\* map_or_else(f, h) is h(e), f not called.
C21_DerivedFolds ==
    (last.op \in { "unwrap_or", "unwrap_or_else", "map_or", "map_or_else" }
        /\ IsResult(last.recv)) =>
        LET recv == last.recv
            out == last.out
        IN  /\ (last.op = "unwrap_or" /\ recv.tag = "Ok") =>
                    out = Ret(recv.value, last.pre)
            /\ (last.op = "unwrap_or" /\ recv.tag = "Err") =>
                    out = Ret(last.arg, last.pre)
            /\ (last.op = "unwrap_or_else" /\ recv.tag = "Ok") =>
                    out = Ret(recv.value, last.pre)
            /\ (last.op = "unwrap_or_else" /\ recv.tag = "Err") =>
                    out = Call(last.arg, recv.error, last.pre)
            /\ (last.op = "map_or" /\ recv.tag = "Ok") =>
                    out = Call(last.arg[2], recv.value, last.pre)
            /\ (last.op = "map_or" /\ recv.tag = "Err") =>
                    out = Ret(last.arg[1], last.pre)
            /\ (last.op = "map_or_else" /\ recv.tag = "Ok") =>
                    /\ out = Call(last.arg[1], recv.value, last.pre)
                    /\ NewCalls(last.arg[2]) = <<>>
            /\ (last.op = "map_or_else" /\ recv.tag = "Err") =>
                    /\ out = Call(last.arg[2], recv.error, last.pre)
                    /\ NewCalls(last.arg[1]) = <<>>

\* Err(e).map_or_else(lambda x: x + 1, h) is h(e); Ok(v) would give v + 1.
C21_Witness ==
    /\ last.op = "map_or_else"
    /\ last.recv.tag = "Err"
    /\ last.arg = <<inc, const0>>
    /\ last.out = Ret(0, << CallEvent(const0, last.recv.error) >>)
    /\ pc = "done"

\* C24: Result.map_or_else(a, b) applies its first argument a to the value
\* on Ok and its second argument b to the error on Err; Option.map_or_else(a,
\* b) applies its second argument b to the value on Some and calls its first
\* argument a, with no argument, on Nil.
C24_MapOrElseOrder ==
    last.op = "map_or_else" =>
        LET a == last.arg[1]
            b == last.arg[2]
            recv == last.recv
        IN  /\ recv.tag = "Ok" =>
                    /\ last.out = Call(a, recv.value, last.pre)
                    /\ NewCalls(b) = <<>>
            /\ recv.tag = "Err" =>
                    /\ last.out = Call(b, recv.error, last.pre)
                    /\ NewCalls(a) = <<>>
            /\ recv.tag = "Some" =>
                    /\ last.out = Call(b, recv.value, last.pre)
                    /\ NewCalls(a) = <<>>
            /\ recv.tag = "Nil" =>
                    /\ last.out = Call(a, <<>>, last.pre)
                    /\ NewCalls(b) = <<>>

\* Some(v).map_or_else(lambda: 0, lambda v: 1) is 1: the second argument ran.
C24_Witness ==
    /\ last.op = "map_or_else"
    /\ last.recv.tag = "Some"
    /\ last.arg = <<const0, const1>>
    /\ last.out = Ret(1, << CallEvent(const1, last.recv.value) >>)
    /\ pc = "done"

\* ------------------------------------- claims on observers and instances
\* C22: inspect(f) calls f exactly once, with the contained value, on Ok and
\* Some, and never on Err and Nil; on_err(f) calls f exactly once, with the
\* contained error, on Err and never on Ok; on_nil(f) calls f exactly once,
\* with no argument, on Nil and never on Some; each returns its receiver,
\* whose variant and payload are what they were.
C22_Observers ==
    last.op \in { "inspect", "on_err", "on_nil" } =>
        LET recv == last.recv
            f == last.arg
            runs == \/ last.op = "inspect" /\ recv.tag \in { "Ok", "Some" }
                    \/ last.op = "on_err" /\ recv.tag = "Err"
                    \/ last.op = "on_nil" /\ recv.tag = "Nil"
            given == CASE recv.tag \in { "Ok", "Some" } -> recv.value
                       [] recv.tag = "Err" -> recv.error
                       [] recv.tag = "Nil" -> <<>>
        IN  /\ runs => /\ NewCalls(f) = << CallEvent(f, given) >>
                       /\ last.out.kind = Call(f, given, last.pre).kind
            /\ ~runs => last.out = Ret(SelfRef, last.pre)
            /\ last.out.kind = "ret" =>
                    /\ last.out.val = SelfRef
                    /\ last.after = recv
                    /\ self = recv

\* Err(e).on_err(f) called f on e and the chain goes on from the same Err.
C22_Witness ==
    /\ last.op = "on_err"
    /\ last.recv.tag = "Err"
    /\ last.arg = const0
    /\ last.out.log = << CallEvent(const0, last.recv.error) >>
    /\ self = origin.obj
    /\ pc = "chain"

Constructors ==
    { "init", "Ok", "Err", "Some", "Nil",
      "lift", "lift_result_py", "lift_option", "lift_option_py" }

\* C23: whatever operations have been called on an instance of Result or
\* Option, it has the variant and the payload its constructor gave it: no
\* operation changes its receiver.
C23_Immutable ==
    /\ pc \in { "chain", "done", "raised" } => self = born
    /\ (pc \in { "chain", "done", "raised" } /\ last.op \notin Constructors) =>
            last.after = last.recv

\* An Ok went through inspect, then map_or: two function bodies ran on its
\* value and it is the Ok that was constructed.
C23_Witness ==
    /\ ops = << "inspect" >>
    /\ last.op = "map_or"
    /\ pc = "done"
    /\ NumCalls(log) = 2
    /\ self.tag = "Ok"
    /\ self = origin.obj
    /\ self = born

\* ------------------------------------------- claims on the shared cursor
\* The positions of the source list handed out so far, in order.
Pulled ==
    LET pulls == SelectSeq(log, LAMBDA ev : ev.ev = "pull")
    IN  [i \in 1..Len(pulls) |-> pulls[i].idx]

====
